---- MODULE Spec2Model ----
(***************************************************************************)
(* Model of the Notion content client (lib/notion.ts): the in-process      *)
(* cache getFromCacheOrFetch / clearCache and the client operations that   *)
(* route their remote calls through it.                                    *)
(*                                                                         *)
(* One step of the model is the code that runs between two awaits.  A      *)
(* call is a task: it holds the locals of getFromCacheOrFetch (now,        *)
(* cachedItem) and of the fetch function (cursor, allBlocks, ...) while a  *)
(* remote request or a nested call is outstanding.                         *)
(*                                                                         *)
(* Time is counted in units of 30 s, so the default ttl of 5 min is 10     *)
(* units and the refresh threshold 0.8 * ttl is 8 units.                   *)
(***************************************************************************)
EXTENDS Integers, Sequences, FiniteSets, TLC

VARIABLES now, env, remoteVer, cache, tasks, ret, lastClear

vars == <<now, env, remoteVer, cache, tasks, ret, lastClear>>

----------------------------------------------------------------------------
(* Bounds of the model *)

MaxTime == 10
MaxTasks == 2
MaxCalls == 2
MaxVersion == 1
MaxPages == 3
MaxBlocks == 4
MaxSpans == 2

(* Program constants *)

TTL == 10
RefreshNum == 8
RefreshDen == 10
PageSize == 100

----------------------------------------------------------------------------
(* Values *)

Undefined == [kind |-> "undefined"]
Null == [kind |-> "null"]
NoCursor == 0

Error(msg) == [kind |-> "error", msg |-> msg]

Includes(msg, tok) == \E i \in 1..Len(msg) : msg[i] = tok

RECURSIVE Concat(_)
Concat(ss) == IF ss = <<>> THEN <<>> ELSE Head(ss) \o Concat(Tail(ss))

(* Messages are token sequences; the tokens of the remote error texts are  *)
(* the markers the classification looks for.                               *)
ConfigMsg == <<"NOTION_DATABASE_ID-not-set">>

RemoteErrors == {<<"404", "Not Found">>, <<"Database error">>}

CoreErrors == {<<"Database error">>}

(* error texts with every marker the catch blocks look for, alone and mixed *)
MarkedErrors ==
  {<<"404", "Not Found">>, <<"401", "Unauthorized">>, <<"403", "Forbidden">>,
   <<"429", "Too Many Requests">>, <<"429", "after", "404">>, <<"429", "after", "401">>,
   <<"Database error">>}

----------------------------------------------------------------------------
(* The remote source *)

DatabaseRows ==
  << [id |-> "p1", slug |-> "s1", tags |-> <<"b", "a">>, category |-> "c1", status |-> "Public"],
     [id |-> "p2", slug |-> "s2", tags |-> <<"a">>, category |-> "", status |-> "Public"] >>

PageIds == {DatabaseRows[i].id : i \in 1..Len(DatabaseRows)}

Row(id) == LET i == CHOOSE j \in 1..Len(DatabaseRows) : DatabaseRows[j].id = id
           IN DatabaseRows[i]

(* pages.retrieve / one result of databases.query *)
PageResponse(id, v) ==
  [kind |-> "page", id |-> id, slug |-> Row(id).slug, tags |-> Row(id).tags, category |-> Row(id).category,
   status |-> Row(id).status, v |-> v]

(* databases.query with a filter [property, value]; property "" is no filter *)
Matches(row, filter) ==
  CASE filter.property = "" -> TRUE
    [] filter.property = "status" -> row.status = filter.value
    [] filter.property = "slug" -> row.slug = filter.value
    [] filter.property = "tags" -> Includes(row.tags, filter.value)
    [] filter.property = "category" -> row.category = filter.value

QueryResults(filter, v) ==
  LET hit == SelectSeq(DatabaseRows, LAMBDA r : Matches(r, filter))
  IN [i \in 1..Len(hit) |-> PageResponse(hit[i].id, v)]

(* blocks.children.list: the children of a block id come in pages; block  *)
(* w0 is answered with has_more true and no next cursor until the source  *)
(* changes                                                                *)
ZNames == <<"z1", "z2", "z3", "z4", "z5">>

(* a block of a list response carries no children: Undefined is the absent  *)
(* field                                                                    *)
Block(id, hc, v) == [id |-> id, v |-> v, has_children |-> hc, children |-> Undefined]

BlockPages(id, v) ==
  CASE id = "p1" -> << <<Block("x1", TRUE, v), Block("x2", FALSE, v)>>,
                       <<Block("x3", FALSE, v), Block("x4", FALSE, v)>> >>
    [] id = "x1" -> << <<Block("y1", FALSE, v)>> >>
    [] id = "p2" -> << <<Block("q1", FALSE, v)>> >>
    [] id = "z0" -> [i \in 1..MaxPages |-> <<Block(ZNames[i], FALSE, v)>>]
    [] id = "w0" -> << <<Block("w1", FALSE, v)>> >>
    [] OTHER -> << <<>> >>

ListResponse(id, cursor, v) ==
  LET pages == BlockPages(id, v)
      i == IF cursor = NoCursor THEN 1 ELSE cursor
  IN IF id = "w0" /\ v = 0
     THEN [results |-> pages[i], has_more |-> TRUE, next_cursor |-> NoCursor]
     ELSE [results |-> pages[i],
           has_more |-> i < Len(pages),
           next_cursor |-> IF i < Len(pages) THEN i + 1 ELSE NoCursor]

----------------------------------------------------------------------------
(* Cache keys: a key is the token sequence of the key string, so that      *)
(* startsWith is computed on it.                                           *)

CacheKey(op, arg) ==
  CASE op = "getPage" -> <<"page", ":", arg[1]>>
    [] op = "getBlocks" -> <<"blocks", ":", arg[1]>>
    [] op = "getFormattedPage" -> <<"formatted-", "page", ":", arg[1], ":", arg[2]>>
    [] op = "getFormattedDatabase" -> <<"formatted-", "database", ":", arg[1], ":", arg[2]>>
    [] op = "getPageBySlug" -> <<"page", "-by-slug", ":", arg[1]>>
    [] op = "getPagesByTag" -> <<"page", "s-by-tag", ":", arg[1]>>
    [] op = "getPagesByCategory" -> <<"page", "s-by-category", ":", arg[1]>>
    [] op = "getAllTags" -> <<"all-", "tags">>
    [] op = "getAllCategories" -> <<"all-", "categories">>

StartsWith(key, keyPrefix) ==
  /\ Len(keyPrefix) <= Len(key)
  /\ \A i \in 1..Len(keyPrefix) : key[i] = keyPrefix[i]

CacheItem(data, timestamp, expiresAt) ==
  [kind |-> "entry", data |-> data, timestamp |-> timestamp, expiresAt |-> expiresAt]

CacheGet(c, key) == IF key \in DOMAIN c THEN c[key] ELSE Undefined

CachePut(c, key, item) == [k \in DOMAIN c \cup {key} |-> IF k = key THEN item ELSE c[k]]

(* now < cachedItem.expiresAt *)
IsUnexpired(item, t) == item.kind = "entry" /\ t < item.expiresAt

(* now > cachedItem.timestamp + config.ttl * (config.refreshThreshold || 0.8) *)
PastThresholdInclusive(item, t) == t * RefreshDen >= item.timestamp * RefreshDen + TTL * RefreshNum

PastThresholdNever(item, t) == FALSE

PastThreshold(item, t) == t * RefreshDen > item.timestamp * RefreshDen + TTL * RefreshNum

----------------------------------------------------------------------------
(* Shaping of raw responses *)

formatPage(page, blocks) ==
  [kind |-> "formatted", id |-> page.id, slug |-> page.slug, tags |-> page.tags, category |-> page.category,
   status |-> page.status, v |-> page.v, blocks |-> blocks]

formatPages(pages) == [i \in 1..Len(pages) |-> formatPage(pages[i], <<>>)]

(* Array.from(set).sort(): the names in lexicographic order *)
NameOrder == <<"a", "b", "c1", "c2">>

SortedNames(names) == SelectSeq(NameOrder, LAMBDA n : n \in names)

AllTagsOf(pages) ==
  SortedNames({pages[i].tags[j] : <<i, j>> \in
                 {q \in (1..Len(pages)) \X (1..2) : q[2] <= Len(pages[q[1]].tags)}})

AllCategoriesOf(pages) ==
  SortedNames({pages[i].category : i \in {j \in 1..Len(pages) : pages[j].category # ""}})

----------------------------------------------------------------------------
(* Text: a string is the sequence of its characters *)

Whitespace == {" ", "tab"}

(* String.prototype.trim *)
RECURSIVE TrimStart(_)
TrimStart(q) == IF q # <<>> /\ Head(q) \in Whitespace THEN TrimStart(Tail(q)) ELSE q

RECURSIVE TrimEnd(_)
TrimEnd(q) ==
  IF q # <<>> /\ q[Len(q)] \in Whitespace THEN TrimEnd(SubSeq(q, 1, Len(q) - 1)) ELSE q

Trim(q) == TrimEnd(TrimStart(q))

(* !query.trim() *)
IsBlankEmptyOnly(query) == query = <<>>

IsBlank(query) == Trim(query) = <<>>

(* String.prototype.toLowerCase *)
LowerChar(ch) ==
  CASE ch = "A" -> "a"
    [] ch = "B" -> "b"
    [] ch = "C" -> "c"
    [] OTHER -> ch

ToLowerCase(text) == [i \in 1..Len(text) |-> LowerChar(text[i])]

(* the characters of the names the collection uses *)
Chars(name) ==
  CASE name = "" -> <<>>
    [] name = "c1" -> <<"c", "1">>
    [] name = "c2" -> <<"c", "2">>
    [] OTHER -> <<name>>

(* String.prototype.includes *)
IncludesText(text, part) ==
  \E i \in 0..Len(text) : i + Len(part) <= Len(text) /\ SubSeq(text, i + 1, i + Len(part)) = part

(* formatPage: a page without title and summary properties *)
DefaultTitle == <<"untitled-mark">>

DefaultSummary == <<>>

(* the filter of searchPages *)
MatchesQuery(page, query) ==
  LET lowerQuery == ToLowerCase(query)
  IN \/ IncludesText(ToLowerCase(DefaultTitle), lowerQuery)
     \/ IncludesText(ToLowerCase(DefaultSummary), lowerQuery)
     \/ \E i \in 1..Len(page.tags) : IncludesText(ToLowerCase(Chars(page.tags[i])), lowerQuery)
     \/ page.category # "" /\ IncludesText(ToLowerCase(Chars(page.category)), lowerQuery)

SearchResults(allPages, query) == SelectSeq(allPages, LAMBDA page : MatchesQuery(page, query))

----------------------------------------------------------------------------
(* Error messages built by the catch blocks *)

PageErrorMessageRateLimitFirst(errorMsg, pageId) ==
  IF Includes(errorMsg, "429") THEN <<"rate-limited">>
  ELSE IF Includes(errorMsg, "404") THEN <<"page-not-found", pageId>>
  ELSE IF Includes(errorMsg, "401") \/ Includes(errorMsg, "403") THEN <<"page-no-access", pageId>>
  ELSE <<"page-fetch-failed:">> \o errorMsg

PageErrorMessage(errorMsg, pageId) ==
  IF Includes(errorMsg, "404") THEN <<"page-not-found", pageId>>
  ELSE IF Includes(errorMsg, "401") \/ Includes(errorMsg, "403") THEN <<"page-no-access", pageId>>
  ELSE IF Includes(errorMsg, "429") THEN <<"rate-limited">>
  ELSE <<"page-fetch-failed:">> \o errorMsg

BlocksErrorMessage(errorMsg, blockId) ==
  IF Includes(errorMsg, "404") THEN <<"block-not-found", blockId>>
  ELSE IF Includes(errorMsg, "401") \/ Includes(errorMsg, "403") THEN <<"block-no-access", blockId>>
  ELSE IF Includes(errorMsg, "429") THEN <<"rate-limited">>
  ELSE <<"block-fetch-failed:">> \o errorMsg

DatabaseErrorMessage(errorMsg) ==
  IF Includes(errorMsg, "404") THEN <<"database-not-found">>
  ELSE IF Includes(errorMsg, "401") \/ Includes(errorMsg, "403") THEN <<"database-no-access">>
  ELSE <<"database-fetch-failed:">> \o errorMsg

WrapMessage(op, errorMsg) ==
  CASE op = "getPageBySlug" -> <<"page-by-slug-failed:">> \o errorMsg
    [] op = "getPagesByTag" -> <<"pages-by-tag-failed:">> \o errorMsg
    [] op = "getPagesByCategory" -> <<"pages-by-category-failed:">> \o errorMsg
    [] op = "getAllTags" -> <<"all-tags-failed:">> \o errorMsg
    [] op = "getAllCategories" -> <<"all-categories-failed:">> \o errorMsg
    [] op = "getFormattedPage" -> <<"format-page-failed:">> \o errorMsg
    [] op = "searchPages" -> <<"search-failed:">> \o errorMsg

(* The message thrown by the catch block of op's fetch function *)
CatchMessage(op, arg, errorMsg) ==
  CASE op = "getPage" -> PageErrorMessage(errorMsg, arg[1])
    [] op = "getBlocks" -> BlocksErrorMessage(errorMsg, arg[1])
    [] op = "getFormattedDatabase" -> DatabaseErrorMessage(errorMsg)
    [] OTHER -> WrapMessage(op, errorMsg)

----------------------------------------------------------------------------
(* Tasks *)

Slots == 1..MaxTasks

ZeroCalls == [query |-> 0, retrieve |-> 0, list |-> 0]

AddCalls(a, b) ==
  [query |-> a.query + b.query, retrieve |-> a.retrieve + b.retrieve, list |-> a.list + b.list]

Idle ==
  [cursor |-> NoCursor, op |-> "", arg |-> <<>>, key |-> <<>>, item |-> Undefined, pageId |-> "",
   pc |-> "idle", mode |-> "sync", parent |-> 0, detached |-> FALSE, t0 |-> 0,
   phase |-> "", allBlocks |-> <<>>, pending |-> 0, rej |-> Undefined, got |-> Undefined,
   reqs |-> <<>>, calls |-> ZeroCalls, outcome |-> "", result |-> Undefined,
   lookedUp |-> FALSE, envAtCall |-> TRUE, fetches |-> 0, fetched |-> "", nres |-> -1,
   fallback |-> FALSE, cleared |-> FALSE, cause |-> <<>>]

IdleSlots(ts) == {s \in Slots : ts[s].pc = "idle"}

Alloc(ts) ==
  IF IdleSlots(ts) = {} THEN 0
  ELSE CHOOSE s \in IdleSlots(ts) : \A r \in IdleSlots(ts) : s <= r

(* A world is the pair of the task table and the cache while one step runs; *)
(* ok is FALSE when the step needs more tasks than the model has.           *)
(* ret is the call that settled towards its top-level caller in this step.  *)
World == [ret |-> Idle, c |-> cache, ts |-> tasks, ok |-> TRUE]

Overflow == [ret |-> Idle, c |-> cache, ts |-> tasks, ok |-> FALSE]

Put(w, s, rec) ==
  IF ~w.ok \/ s = 0 THEN Overflow ELSE [w EXCEPT !.ts = [@ EXCEPT ![s] = rec]]

(* The four operations that check process.env.NOTION_DATABASE_ID on entry *)
RequiresDatabaseIdListingOnly(op) == op = "getFormattedDatabase"

RequiresDatabaseId(op) ==
  op \in {"getFormattedDatabase", "getPageBySlug", "getPagesByTag", "getPagesByCategory"}

QueryFilter(op, arg) ==
  CASE op = "getFormattedDatabase" ->
         IF arg[1] = "true" THEN [property |-> "status", value |-> arg[2]]
         ELSE [property |-> "", value |-> ""]
    [] op = "getPageBySlug" -> [property |-> "slug", value |-> arg[1]]
    [] op = "getPagesByTag" -> [property |-> "tags", value |-> arg[1]]
    [] op = "getPagesByCategory" -> [property |-> "category", value |-> arg[1]]

----------------------------------------------------------------------------
(* A settled child hands its result to the awaiting parent *)

(* an assigned children field holds the list the nested fetch returned *)
Children(list) == [kind |-> "blocks", items |-> list]

SetChildren(blocks, id, children) ==
  [i \in 1..Len(blocks) |->
     IF blocks[i].id = id THEN [blocks[i] EXCEPT !.children = Children(children)]
     ELSE blocks[i]]

ReceiveIgnoringFailure(prec, crec, outcome, value) ==
  [prec EXCEPT !.pending = @ - 1, !.calls = AddCalls(@, crec.calls)]

Receive(prec, crec, outcome, value) ==
  LET p1 == [prec EXCEPT !.pending = @ - 1, !.calls = AddCalls(@, crec.calls)]
  IN IF outcome = "threw"
     THEN [p1 EXCEPT !.rej = IF @ = Undefined THEN value ELSE @]
     ELSE IF prec.op = "getBlocks"
          THEN [p1 EXCEPT !.allBlocks = SetChildren(@, crec.arg[1], value)]
          ELSE [p1 EXCEPT !.got = value]

(* The promise of the call in slot s settles *)
Deliver(w, s, rec, outcome, value) ==
  IF ~w.ok THEN Overflow
  ELSE IF rec.detached THEN Put(w, s, Idle)
  ELSE IF rec.parent = 0
       THEN [Put(w, s, Idle) EXCEPT
               !.ret = [rec EXCEPT !.pc = "done", !.outcome = outcome, !.result = value]]
       ELSE Put(Put(w, s, Idle), rec.parent, Receive(w.ts[rec.parent], rec, outcome, value))

(* The catch block of getFromCacheOrFetch: the stale entry it serves is the *)
(* cachedItem read when the lookup started                                  *)
FallbackItemNone(c, rec) == Undefined

FallbackItem(c, rec) == rec.item

(* storing the fetched data: by the lookup itself, by a background refresh *)
FetchedItem(rec, data) == CacheItem(data, rec.t0, rec.t0 + TTL)

RefreshedItemAtStart(rec, data) == CacheItem(data, rec.t0, rec.t0 + TTL)

RefreshedItem(rec, data) == CacheItem(data, now, now + TTL)

(* the cache after the fetch of rec failed: nothing is stored *)
CacheAfterFailureStored(c, rec, error) ==
  CachePut(c, rec.key, CacheItem(error, rec.t0, rec.t0 + TTL))

CacheAfterFailure(c, rec, error) == c

(* getFromCacheOrFetch after fetchFn settled with outcome and value *)
CompleteShared(w, s, rec0, outcome, value) ==
  IF w.ok /\ rec0.mode = "sync" /\ outcome = "returned"
          /\ IsUnexpired(CacheGet(w.c, rec0.key), now)
  THEN Deliver(w, s, [rec0 EXCEPT !.fetched = outcome], "returned",
               CacheGet(w.c, rec0.key).data)
  ELSE
  LET rec == [rec0 EXCEPT !.fetched = outcome]
  IN IF ~w.ok THEN Overflow
     ELSE IF rec.mode = "bg"
          THEN IF outcome = "returned"
               THEN Put([w EXCEPT !.c = CachePut(@, rec.key, RefreshedItem(rec, value))], s, Idle)
               ELSE Put(w, s, Idle)
          ELSE IF outcome = "returned"
               THEN Deliver([w EXCEPT !.c = CachePut(@, rec.key, FetchedItem(rec, value))],
                            s, rec, "returned", value)
               ELSE LET w1 == [w EXCEPT !.c = CacheAfterFailure(@, rec, value)]
                    IN IF FallbackItem(w.c, rec) # Undefined
                       THEN Deliver(w1, s, [rec EXCEPT !.fallback = TRUE], "returned",
                                    FallbackItem(w.c, rec).data)
                       ELSE Deliver(w1, s, rec, "threw", value)

Complete(w, s, rec0, outcome, value) ==
  LET rec == [rec0 EXCEPT !.fetched = outcome]
  IN IF ~w.ok THEN Overflow
     ELSE IF rec.mode = "bg"
          THEN IF outcome = "returned"
               THEN Put([w EXCEPT !.c = CachePut(@, rec.key, RefreshedItem(rec, value))], s, Idle)
               ELSE Put(w, s, Idle)
          ELSE IF outcome = "returned"
               THEN Deliver([w EXCEPT !.c = CachePut(@, rec.key, FetchedItem(rec, value))],
                            s, rec, "returned", value)
               ELSE LET w1 == [w EXCEPT !.c = CacheAfterFailure(@, rec, value)]
                    IN IF FallbackItem(w.c, rec) # Undefined
                       THEN Deliver(w1, s, [rec EXCEPT !.fallback = TRUE], "returned",
                                    FallbackItem(w.c, rec).data)
                       ELSE Deliver(w1, s, rec, "threw", value)

----------------------------------------------------------------------------
(* Starting a call: the synchronous part of the operation, of              *)
(* getFromCacheOrFetch and of the fetch function up to its first await     *)

RECURSIVE StartCall(_, _, _, _, _)
RECURSIVE FetchStart(_, _, _)

(* fetchFn() up to its first await, for the call rec placed in slot s *)
FetchStart(w, s, rec) ==
  IF ~w.ok \/ s = 0 THEN Overflow
  ELSE CASE rec.op = "getPage" ->
              Put(w, s, [rec EXCEPT !.pc = "remote", !.calls.retrieve = @ + 1])
         [] rec.op = "getBlocks" ->
              Put(w, s, [rec EXCEPT !.pc = "remote", !.cursor = NoCursor, !.allBlocks = <<>>,
                                    !.reqs = <<[start_cursor |-> NoCursor, page_size |-> PageSize]>>,
                                    !.calls.list = @ + 1])
         [] rec.op \in {"getAllTags", "getAllCategories"} ->
              LET w1 == Put(w, s, [rec EXCEPT !.pc = "await", !.pending = 1])
              IN StartCall(w1, Alloc(w1.ts), "getFormattedDatabase", <<"true", "Public">>, s)
         [] OTHER ->
              IF ~env
              THEN Complete(w, s, rec, "threw", Error(CatchMessage(rec.op, rec.arg, ConfigMsg)))
              ELSE Put(w, s, [rec EXCEPT !.pc = "remote", !.calls.query = @ + 1])

(* getFromCacheOrFetch(key, fetchFn) up to its first await *)
getFromCacheOrFetch(w, s, rec0) ==
  LET cachedItem == CacheGet(w.c, rec0.key)
      rec == [rec0 EXCEPT !.t0 = now, !.item = cachedItem, !.lookedUp = TRUE]
  IN IF IsUnexpired(cachedItem, now)
     THEN IF PastThreshold(cachedItem, now)
          THEN LET w1 == Put(w, s, [rec EXCEPT !.pc = "call"])
                   wb == FetchStart(w1, Alloc(w1.ts), [rec EXCEPT !.mode = "bg", !.parent = 0,
                                                              !.fetches = 1])
               IN Deliver(wb, s, [rec EXCEPT !.fetches = 1], "returned", cachedItem.data)
          ELSE Deliver(w, s, rec, "returned", cachedItem.data)
     ELSE FetchStart(w, s, [rec EXCEPT !.fetches = 1])

StartCall(w, s, op, arg, parent) ==
  LET rec0 == [Idle EXCEPT !.pc = "call", !.op = op, !.arg = arg, !.key = CacheKey(op, arg),
                           !.parent = parent, !.envAtCall = env]
      search == [Idle EXCEPT !.pc = "await", !.op = op, !.arg = arg, !.parent = parent,
                             !.envAtCall = env]
  IN IF ~w.ok \/ s = 0 THEN Overflow
     ELSE IF op = "searchPages"
          THEN IF IsBlank(arg[1])
               THEN Deliver(w, s, search, "returned", <<>>)
               ELSE LET w1 == Put(w, s, [search EXCEPT !.pending = 1])
                    IN StartCall(w1, Alloc(w1.ts), "getFormattedDatabase", <<"false", "Public">>, s)
     ELSE IF RequiresDatabaseId(op) /\ ~env
          THEN Deliver(w, s, rec0, "threw", Error(ConfigMsg))
          ELSE getFromCacheOrFetch(Put(w, s, rec0), s, rec0)

RECURSIVE SpawnChildren(_, _, _)
SpawnChildren(w, s, ids) ==
  IF ~w.ok THEN Overflow
  ELSE IF ids = <<>> THEN w
  ELSE SpawnChildren(StartCall(w, Alloc(w.ts), "getBlocks", <<Head(ids)>>, s), s, Tail(ids))

----------------------------------------------------------------------------
(* The remote request of the task in slot s settles *)

(* cursor = response.next_cursor || undefined *)
NextCursor(response) == response.next_cursor

(* allBlocks = [...allBlocks, ...blocks] *)
AppendBlocksReversed(allBlocks, blocks) == blocks \o allBlocks

AppendBlocks(allBlocks, blocks) == allBlocks \o blocks

BlocksWithChildren(blocks) == SelectSeq(blocks, LAMBDA b : b.has_children)

OnListResponse(w, s, rec, response) ==
  LET all == AppendBlocks(rec.allBlocks, response.results)
  IN IF response.has_more
     THEN Put(w, s, [rec EXCEPT !.allBlocks = all, !.cursor = NextCursor(response),
                                !.reqs = Append(@, [start_cursor |-> NextCursor(response),
                                                    page_size |-> PageSize]),
                                !.calls.list = @ + 1])
     ELSE LET bwc == BlocksWithChildren(all)
          IN IF Len(bwc) > 0
             THEN SpawnChildren(Put(w, s, [rec EXCEPT !.pc = "await", !.allBlocks = all,
                                                      !.pending = Len(bwc)]),
                                s, [i \in 1..Len(bwc) |-> bwc[i].id])
             ELSE Complete(w, s, rec, "returned", all)

(* getPageBySlug when response.results.length === 0: return null *)
NoPageFoundThrows(slug) == [value |-> Error(<<"no-page-with-slug", slug>>), outcome |-> "threw"]

NoPageFound(slug) == [value |-> Null, outcome |-> "returned"]

OnQueryResponse(w, s, rec0, results) ==
  LET rec == [rec0 EXCEPT !.nres = Len(results)]
  IN
  IF rec.op = "getPageBySlug"
  THEN IF Len(results) = 0
       THEN Complete(w, s, rec, NoPageFound(rec.arg[1]).outcome, NoPageFound(rec.arg[1]).value)
       ELSE LET w1 == Put(w, s, [rec EXCEPT !.pc = "await", !.phase = "blocks", !.pending = 1,
                                            !.got = Undefined, !.pageId = results[1].id])
            IN StartCall(w1, Alloc(w1.ts), "getBlocks", <<results[1].id>>, s)
  ELSE Complete(w, s, rec, "returned", formatPages(results))

OnResponse(w, s, ok, errorMsg) ==
  LET rec == w.ts[s]
  IN IF ~ok
     THEN Complete(w, s, [rec EXCEPT !.cause = errorMsg], "threw",
                   Error(CatchMessage(rec.op, rec.arg, errorMsg)))
     ELSE CASE rec.op = "getPage" ->
                 Complete(w, s, rec, "returned", PageResponse(rec.arg[1], remoteVer))
            [] rec.op = "getBlocks" ->
                 OnListResponse(w, s, rec, ListResponse(rec.arg[1], rec.cursor, remoteVer))
            [] OTHER ->
                 OnQueryResponse(w, s, rec, QueryResults(QueryFilter(rec.op, rec.arg), remoteVer))

(* The awaited nested calls of the task in slot s have settled *)
Orphan(ts, s) ==
  [r \in Slots |-> IF ts[r].pc # "idle" /\ ts[r].parent = s
                   THEN [ts[r] EXCEPT !.parent = 0, !.detached = TRUE] ELSE ts[r]]

CanResumeEarly(rec) == rec.pc = "await"

CanResume(rec) == rec.pc = "await" /\ (rec.rej # Undefined \/ rec.pending = 0)

OnSettled(w, s) ==
  LET rec == w.ts[s]
  IN IF rec.op = "searchPages"
     THEN IF rec.rej # Undefined
          THEN Deliver(w, s, rec, "threw", Error(CatchMessage(rec.op, rec.arg, rec.rej.msg)))
          ELSE Deliver(w, s, rec, "returned", SearchResults(rec.got, rec.arg[1]))
     ELSE IF rec.rej # Undefined
     THEN Complete([w EXCEPT !.ts = Orphan(@, s)], s, rec, "threw",
                   Error(CatchMessage(rec.op, rec.arg, rec.rej.msg)))
     ELSE CASE rec.op = "getBlocks" -> Complete(w, s, rec, "returned", rec.allBlocks)
            [] rec.op = "getAllTags" -> Complete(w, s, rec, "returned", AllTagsOf(rec.got))
            [] rec.op = "getAllCategories" ->
                 Complete(w, s, rec, "returned", AllCategoriesOf(rec.got))
            [] rec.op = "getPageBySlug" /\ rec.phase = "blocks" ->
                 LET w1 == Put(w, s, [rec EXCEPT !.phase = "page", !.pending = 1,
                                                 !.allBlocks = rec.got, !.got = Undefined])
                 IN StartCall(w1, Alloc(w1.ts), "getPage", <<rec.pageId>>, s)
            [] rec.op = "getPageBySlug" /\ rec.phase = "page" ->
                 Complete(w, s, rec, "returned", formatPage(rec.got, rec.allBlocks))

----------------------------------------------------------------------------
(* clearCache *)

NoPrefix == <<"<undefined>">>

ClearedCacheAll(c, keyPrefix) == [k \in {} |-> Undefined]

ClearedCache(c, keyPrefix) ==
  IF keyPrefix # NoPrefix /\ keyPrefix # <<>>
  THEN [k \in {q \in DOMAIN c : ~StartsWith(q, keyPrefix)} |-> c[k]]
  ELSE [k \in {} |-> Undefined]

NoClear == [op |-> "none", keyPrefix |-> <<>>, removed |-> {}]

----------------------------------------------------------------------------
(* Actions *)

Init ==
  /\ now = 0
  /\ env = TRUE
  /\ remoteVer = 0
  /\ cache = [k \in {} |-> Undefined]
  /\ tasks = [s \in Slots |-> Idle]
  /\ ret = Idle
  /\ lastClear = NoClear

(* The task table is kept without holes: the slot numbers are names only *)
Rank(ts, s) == Cardinality({r \in 1..s : ts[r].pc # "idle"})

Compact(ts) ==
  [i \in Slots |->
     IF \E s \in Slots : ts[s].pc # "idle" /\ Rank(ts, s) = i
     THEN LET s == CHOOSE r \in Slots : ts[r].pc # "idle" /\ Rank(ts, r) = i
          IN [ts[s] EXCEPT !.parent = IF @ = 0 THEN 0 ELSE Rank(ts, @)]
     ELSE Idle]

Step(w) ==
  /\ w.ok
  /\ tasks' = Compact(w.ts)
  /\ cache' = w.c
  /\ ret' = w.ret
  /\ lastClear' = NoClear
  /\ UNCHANGED <<now, env, remoteVer>>

(* A top-level caller invokes an exported operation *)
Callers == {s \in Slots : tasks[s].pc # "idle" /\ tasks[s].parent = 0
                          /\ tasks[s].mode = "sync" /\ ~tasks[s].detached}

Call(op, arg) ==
  /\ Cardinality(Callers) < MaxCalls
  /\ Step(StartCall(World, Alloc(tasks), op, arg, 0))

getPage(pageId) == Call("getPage", <<pageId>>)

getBlocks(blockId) == Call("getBlocks", <<blockId>>)

getFormattedDatabase(filterByStatus, status) ==
  Call("getFormattedDatabase", <<filterByStatus, status>>)

getPageBySlug(slug) == Call("getPageBySlug", <<slug>>)

getPagesByTag(tag) == Call("getPagesByTag", <<tag>>)

getPagesByCategory(category) == Call("getPagesByCategory", <<category>>)

searchPages(query) == Call("searchPages", <<query>>)

getAllTags == Call("getAllTags", <<>>)

getAllCategories == Call("getAllCategories", <<>>)

RemoteResolves(s) ==
  /\ tasks[s].pc = "remote"
  /\ Step(OnResponse(World, s, TRUE, <<>>))

RemoteRejects(s, errorMsg) ==
  /\ tasks[s].pc = "remote"
  /\ Step(OnResponse(World, s, FALSE, errorMsg))

Settled(s) ==
  /\ CanResume(tasks[s])
  /\ Step(OnSettled(World, s))

clearCache(keyPrefix) ==
  /\ cache' = ClearedCache(cache, keyPrefix)
  /\ ret' = Idle
  /\ lastClear' = [op |-> "clearCache", keyPrefix |-> keyPrefix,
                   removed |-> DOMAIN cache \ DOMAIN cache']
  /\ tasks' = [s \in Slots |->
                 IF /\ tasks[s].pc \in {"remote", "await"}
                    /\ tasks[s].item # Undefined
                    /\ tasks[s].key \in DOMAIN cache
                    /\ tasks[s].key \notin DOMAIN cache'
                    /\ cache[tasks[s].key] = tasks[s].item
                 THEN [tasks[s] EXCEPT !.cleared = TRUE] ELSE tasks[s]]
  /\ UNCHANGED <<now, env, remoteVer>>

(* The clock readings are the instants 0, 8, 9 of every ttl period: the     *)
(* refresh threshold, the one reading inside the refresh window, the expiry *)
ThresholdAge == (TTL * RefreshNum) \div RefreshDen

TickStep(t) == IF (t % TTL) < ThresholdAge THEN ThresholdAge - (t % TTL) ELSE 1

Tick ==
  /\ now + TickStep(now) <= MaxTime
  /\ now' = now + TickStep(now)
  /\ lastClear' = NoClear
  /\ ret' = Idle
  /\ UNCHANGED <<env, remoteVer, cache, tasks>>

SetEnv ==
  /\ env' = ~env
  /\ lastClear' = NoClear
  /\ ret' = Idle
  /\ UNCHANGED <<now, remoteVer, cache, tasks>>

RemoteChange ==
  /\ remoteVer < MaxVersion
  /\ remoteVer' = remoteVer + 1
  /\ lastClear' = NoClear
  /\ ret' = Idle
  /\ UNCHANGED <<now, env, cache, tasks>>

Prefixes == {NoPrefix, <<"page", ":">>, <<"formatted-">>}

Next ==
  \/ getPage("p1")
  \/ getFormattedDatabase("true", "Public")
  \/ \E s \in Slots : RemoteResolves(s)
  \/ \E s \in Slots, e \in CoreErrors : RemoteRejects(s, e)
  \/ \E p \in Prefixes : clearCache(p)
  \/ Tick
  \/ RemoteChange

Spec == Init /\ [][Next]_vars

(* The operations that need the collection identifier, under a changing    *)
(* environment                                                              *)
NextConfig ==
  \/ getFormattedDatabase("true", "Public")
  \/ getPageBySlug("missing")
  \/ getPagesByTag("a")
  \/ getPagesByCategory("c1")
  \/ getAllTags
  \/ getAllCategories
  \/ \E s \in Slots : RemoteResolves(s)
  \/ \E s \in Slots, e \in RemoteErrors : RemoteRejects(s, e)
  \/ \E s \in Slots : Settled(s)
  \/ SetEnv

SpecConfig == Init /\ [][NextConfig]_vars

(* Block fetches and the lookup by slug that is built on them *)
NextBlocks ==
  \/ \E blockId \in {"p1", "z0"} : getBlocks(blockId)
  \/ \E slug \in {"s2", "missing"} : getPageBySlug(slug)
  \/ \E s \in Slots : RemoteResolves(s)
  \/ \E s \in Slots, e \in RemoteErrors : RemoteRejects(s, e)
  \/ \E s \in Slots : Settled(s)
  \/ clearCache(NoPrefix)

SpecBlocks == Init /\ [][NextBlocks]_vars

(* The pagination loop of a block fetch, over a source that may answer    *)
(* has_more without a cursor; the requests of one fetch are bounded       *)
NextPagination ==
  \/ \E blockId \in {"z0", "w0"} : getBlocks(blockId)
  \/ \E s \in {r \in Slots : tasks[r].calls.list <= MaxPages} : RemoteResolves(s)
  \/ \E s \in Slots, e \in CoreErrors : RemoteRejects(s, e)
  \/ RemoteChange
  \/ clearCache(NoPrefix)

SpecPagination == Init /\ [][NextPagination]_vars

(* The lookup by slug over the separately cached page and blocks entries. *)
(* The clock is read a little more than half a ttl apart, up to two       *)
(* periods, and the source changes once, right after time 0; no request   *)
(* fails.                                                                 *)
Elapse ==
  /\ now + (TTL \div 2 + 1) <= 2 * MaxTime
  /\ now' = now + (TTL \div 2 + 1)
  /\ remoteVer' = 1
  /\ lastClear' = NoClear
  /\ ret' = Idle
  /\ UNCHANGED <<env, cache, tasks>>

NextLayers ==
  \/ getPageBySlug("s2")
  \/ getPage("p2")
  \/ getBlocks("p2")
  \/ \E s \in Slots : RemoteResolves(s)
  \/ \E s \in Slots : Settled(s)
  \/ Elapse

SpecLayers == Init /\ [][NextLayers]_vars

(* Free-text search over the collection *)
Queries == {<<>>, <<" ", "tab">>, <<"A">>, <<"c">>, <<"z">>}

NextSearch ==
  \/ \E query \in Queries : searchPages(query)
  \/ \E s \in Slots : RemoteResolves(s)
  \/ \E s \in Slots, e \in CoreErrors : RemoteRejects(s, e)
  \/ \E s \in Slots : Settled(s)
  \/ clearCache(NoPrefix)
  \/ SetEnv
  \/ RemoteChange

SpecSearch == Init /\ [][NextSearch]_vars

(* Remote failures of every kind, met by the page, block and database fetch *)
NextErrors ==
  \/ getPage("p1")
  \/ getBlocks("p2")
  \/ getFormattedDatabase("true", "Public")
  \/ \E s \in Slots : RemoteResolves(s)
  \/ \E s \in Slots, e \in MarkedErrors : RemoteRejects(s, e)

SpecErrors == Init /\ [][NextErrors]_vars

----------------------------------------------------------------------------
(* The block renderer (components/NotionBlock.tsx).                        *)
(*                                                                         *)
(* Values handed to the renderer are JavaScript values: undefined, null,   *)
(* strings, booleans, numbers, arrays and objects with any set of fields.  *)

Str(s) == [kind |-> "string", s |-> s]

Bool(b) == [kind |-> "boolean", b |-> b]

Num(n) == [kind |-> "number", n |-> n]

Arr(items) == [kind |-> "array", items |-> items]

Obj(fields) == [kind |-> "object", fields |-> fields]

NoFields == [f \in {} |-> Undefined]

IsNullish(x) == x.kind \in {"undefined", "null"}

(* the value is truthy *)
Truthy(x) ==
  CASE IsNullish(x) -> FALSE
    [] x.kind = "string" -> x.s # ""
    [] x.kind = "boolean" -> x.b
    [] x.kind = "number" -> x.n # 0
    [] OTHER -> TRUE

(* x?.f, and x.f where x is known to be neither undefined nor null *)
Get(x, f) == IF x.kind = "object" /\ f \in DOMAIN x.fields THEN x.fields[f] ELSE Undefined

(* The outcome of evaluating a piece of the renderer *)
Return(value) == [value |-> value, outcome |-> "returned"]

Throw(name) == [value |-> Error(<<name>>), outcome |-> "threw"]

(* The units groupBlocks emits *)
EmptyState == [text |-> "no-content", unit |-> "empty"]

ListUnit(tag, items) == [items |-> items, tag |-> tag, unit |-> "list"]

BlockUnit(block) == [unit |-> "block", block |-> block]

(* const ListTag = currentListType === 'ul' ? 'ul' : 'ol' *)
ListTag(currentListType) == IF currentListType = "ul" THEN "ul" ELSE "ol"

(* if (currentListType !== newListType) *)
ListTypeChangedAlways(currentListType, newListType) == TRUE

ListTypeChanged(currentListType, newListType) == currentListType # newListType

(* the push of the last list after the loop *)
LastListDropped(groupedBlocks, currentListItems, currentListType) == groupedBlocks

LastList(groupedBlocks, currentListItems, currentListType) ==
  IF Len(currentListItems) > 0
  THEN Append(groupedBlocks, ListUnit(ListTag(currentListType), currentListItems))
  ELSE groupedBlocks

(* blocks.forEach((block, index) => ...) from index on *)
RECURSIVE GroupFrom(_, _, _, _, _)
GroupFrom(blocks, index, groupedBlocks, currentListItems, currentListType) ==
  IF index > Len(blocks)
  THEN LastList(groupedBlocks, currentListItems, currentListType)
  ELSE LET block == blocks[index]
           isListItem ==
             Get(block, "type") \in {Str("bulleted_list_item"), Str("numbered_list_item")}
           newListType == IF Get(block, "type") = Str("bulleted_list_item") THEN "ul" ELSE "ol"
           flushed == Append(groupedBlocks, ListUnit(ListTag(currentListType), currentListItems))
       IN IF isListItem
          THEN IF ListTypeChanged(currentListType, newListType)
               THEN IF Len(currentListItems) > 0
                    THEN GroupFrom(blocks, index + 1, flushed, <<BlockUnit(block)>>, newListType)
                    ELSE GroupFrom(blocks, index + 1, groupedBlocks,
                                   Append(currentListItems, BlockUnit(block)), newListType)
               ELSE GroupFrom(blocks, index + 1, groupedBlocks,
                              Append(currentListItems, BlockUnit(block)), currentListType)
          ELSE IF Len(currentListItems) > 0
               THEN GroupFrom(blocks, index + 1, Append(flushed, BlockUnit(block)), <<>>, "null")
               ELSE GroupFrom(blocks, index + 1, Append(groupedBlocks, BlockUnit(block)),
                              currentListItems, currentListType)

groupBlocks(blocks) ==
  IF ~Truthy(blocks) \/ Len(blocks.items) = 0
  THEN <<EmptyState>>
  ELSE GroupFrom(blocks.items, 1, <<>>, <<>>, "null")

(* `text ${value}`: the pieces of a built string, in order *)
Template(parts) == [kind |-> "template", parts |-> parts]

(* A rendered element: its tag, its attributes as <<name, value>> pairs and *)
(* its rendered children.                                                   *)
Node(el, attrs, kids) == [el |-> el, attrs |-> attrs, kids |-> kids]

TextNode(value) == Node("#text", << <<"data", value>> >>, <<>>)

(* <el ...attrs>{children}</el>: an error raised by a child escapes *)
Element(el, attrs, outs) ==
  LET threw == {i \in DOMAIN outs : outs[i].outcome = "threw"}
  IN IF threw # {}
     THEN outs[CHOOSE i \in threw : \A j \in threw : i <= j]
     ELSE Return(Node(el, attrs, [i \in DOMAIN outs |-> outs[i].value]))

(* {value} as a child: undefined, null and booleans show nothing, strings  *)
(* and numbers show as text, arrays show their items, and a plain object   *)
(* is rejected by React.                                                   *)
RECURSIVE Child(_)
Child(value) ==
  CASE value.kind \in {"undefined", "null", "boolean"} -> Return(Null)
    [] value.kind \in {"string", "number", "template"} -> Return(TextNode(value))
    [] value.kind = "array" ->
         Element("Fragment", <<>>, [i \in DOMAIN value.items |-> Child(value.items[i])])
    [] OTHER -> Throw("Error")

(* x.length > 0 *)
LengthPositive(x) ==
  CASE x.kind = "array" -> Len(x.items) > 0
    [] x.kind = "string" -> x.s # ""
    [] OTHER -> Get(x, "length").kind = "number" /\ Get(x, "length").n > 0

(* x.length === 0 *)
LengthZeroNever(x) == FALSE

LengthZero(x) ==
  CASE x.kind = "array" -> Len(x.items) = 0
    [] x.kind = "string" -> x.s = ""
    [] OTHER -> Get(x, "length") = Num(0)

getStyleClasses(annotations, type) ==
  LET color == Get(annotations, "color")
      (* annotations.color.includes('_background') *)
      includesBackground == color.s \in {"red_background", "blue_background"}
      (* annotations.color.replace('_background', '') *)
      bgColor == CASE color.s = "red_background" -> "red"
                   [] color.s = "blue_background" -> "blue"
                   [] OTHER -> color.s
      codeClasses == IF type = Str("code")
                     THEN <<Str("bg-gray-100 p-1 rounded font-mono text-sm")>>
                     ELSE <<>>
  IN IF Truthy(color) /\ color # Str("default")
     THEN CASE color.kind = "string" ->
                 IF includesBackground
                 THEN Return(Template(<<Str("bg-"), Str(bgColor), Str("-100 text-"),
                                        Str(bgColor), Str("-800 px-1 rounded")>>
                                        \o codeClasses))
                 ELSE Return(Template(<<Str("text-"), color, Str("-500")>> \o codeClasses))
            [] color.kind = "array" ->
                 Return(Template(<<Str("text-"), color, Str("-500")>> \o codeClasses))
            [] OTHER -> Throw("TypeError")
     ELSE Return(Template(codeClasses))

(* the wrappers of one span, applied from the inside out *)
ContentBoldFirst(annotations, plain_text) ==
  LET Wrap(flag, el, content) ==
        IF Truthy(flag) THEN Element(el, <<>>, <<content>>) ELSE content
  IN Wrap(Get(annotations, "underline"), "u",
       Wrap(Get(annotations, "strikethrough"), "del",
         Wrap(Get(annotations, "italic"), "em",
           Wrap(Get(annotations, "code"), "code",
             Wrap(Get(annotations, "bold"), "strong",
               Element("Fragment", <<>>, <<Child(plain_text)>>))))))

Content(annotations, plain_text) ==
  LET Wrap(flag, el, content) ==
        IF Truthy(flag) THEN Element(el, <<>>, <<content>>) ELSE content
  IN Wrap(Get(annotations, "underline"), "u",
       Wrap(Get(annotations, "strikethrough"), "del",
         Wrap(Get(annotations, "italic"), "em",
           Wrap(Get(annotations, "bold"), "strong",
             Wrap(Get(annotations, "code"), "code",
               Element("Fragment", <<>>, <<Child(plain_text)>>))))))

(* the callback of richText.map *)
Span(text) ==
  IF IsNullish(text) \/ IsNullish(Get(text, "annotations"))
  THEN Throw("TypeError")
  ELSE LET annotations == Get(text, "annotations")
           href == Get(text, "href")
           styleClass == getStyleClasses(annotations, Get(text, "type"))
           content == Content(annotations, Get(text, "plain_text"))
       IN IF styleClass.outcome = "threw"
          THEN styleClass
          ELSE IF Truthy(href)
               THEN Element("a",
                            << <<"href", href>>,
                               <<"className", Template(<<Str("text-blue-500 hover:underline ")>>
                                                         \o styleClass.value.parts)>>,
                               <<"target", Str("_blank")>>,
                               <<"rel", Str("noopener noreferrer")>> >>,
                            <<content>>)
               ELSE Element("span",
                            IF styleClass.value.parts = <<>>
                            THEN <<>>
                            ELSE << <<"className", styleClass.value>> >>,
                            <<content>>)

RichText(richText) ==
  IF ~Truthy(richText) \/ LengthZero(richText)
  THEN Return(Null)
  ELSE IF richText.kind = "array"
       THEN Element("Fragment", <<>>, [i \in DOMAIN richText.items |-> Span(richText.items[i])])
       ELSE Throw("TypeError")

(* The notices of the block components *)
Notice(text) == Node("div", << <<"className", Str("text-red-500")>> >>, <<TextNode(Str(text))>>)

RECURSIVE NotionBlock(_)

(* {x && x.length > 0 && <el>...</el>} *)
Guarded(x, out) ==
  IF ~Truthy(x) THEN Child(x) ELSE IF LengthPositive(x) THEN out ELSE Child(Bool(FALSE))

(* block.children.map((child) => <NotionBlock key={child.id} block={child} />) *)
ChildBlocks(children) ==
  IF children.kind # "array" \/ \E i \in DOMAIN children.items : IsNullish(children.items[i])
  THEN <<Throw("TypeError")>>
  ELSE [i \in DOMAIN children.items |-> NotionBlock(children.items[i])]

(* items.map((item) => item.plain_text) *)
PlainTexts(items) ==
  IF items.kind # "array" \/ \E i \in DOMAIN items.items : IsNullish(items.items[i])
  THEN Throw("TypeError")
  ELSE Return(Template([i \in DOMAIN items.items |-> Get(items.items[i], "plain_text")]))

ParagraphBlock(block) ==
  Element("p", <<>>, <<RichText(Get(Get(block, "paragraph"), "rich_text"))>>)

Heading1Block(block) ==
  Element("h1", <<>>, <<RichText(Get(Get(block, "heading_1"), "rich_text"))>>)

Heading2Block(block) ==
  Element("h2", <<>>, <<RichText(Get(Get(block, "heading_2"), "rich_text"))>>)

Heading3Block(block) ==
  Element("h3", <<>>, <<RichText(Get(Get(block, "heading_3"), "rich_text"))>>)

BulletedListItemBlock(block) ==
  Element("li", << <<"className", Str("list-disc")>> >>,
          <<RichText(Get(Get(block, "bulleted_list_item"), "rich_text")),
            Guarded(Get(block, "children"),
                    Element("ul", <<>>, ChildBlocks(Get(block, "children"))))>>)

NumberedListItemBlock(block) ==
  Element("li", << <<"className", Str("list-decimal")>> >>,
          <<RichText(Get(Get(block, "numbered_list_item"), "rich_text")),
            Guarded(Get(block, "children"),
                    Element("ol", <<>>, ChildBlocks(Get(block, "children"))))>>)

ToDoBlock(block) ==
  Element("div", <<>>,
          <<Return(Node("input", << <<"type", Str("checkbox")>>,
                                    <<"checked", Get(Get(block, "to_do"), "checked")>> >>, <<>>)),
            Element("div", <<>>, <<RichText(Get(Get(block, "to_do"), "rich_text"))>>)>>)

ToggleBlock(block) ==
  Element("details", <<>>,
          <<Element("summary", <<>>, <<RichText(Get(Get(block, "toggle"), "rich_text"))>>),
            Guarded(Get(block, "children"),
                    Element("div", <<>>, ChildBlocks(Get(block, "children"))))>>)

CodeBlock(block) ==
  LET language == IF Truthy(Get(Get(block, "code"), "language"))
                  THEN Get(Get(block, "code"), "language")
                  ELSE Str("text")
      rich_text == IF IsNullish(Get(Get(block, "code"), "rich_text"))
                   THEN Arr(<<>>)
                   ELSE Get(Get(block, "code"), "rich_text")
      codeText == PlainTexts(rich_text)
  IN IF codeText.outcome = "threw"
     THEN codeText
     ELSE Element("pre", <<>>,
                  <<Element("code", << <<"className", Template(<<Str("language-"), language>>)>> >>,
                            <<Child(codeText.value)>>)>>)

QuoteBlock(block) ==
  Element("blockquote", <<>>, <<RichText(Get(Get(block, "quote"), "rich_text"))>>)

DividerBlock == Return(Node("hr", <<>>, <<>>))

(* block.x?.type === 'external' ? block.x.external?.url : block.x?.file?.url *)
MediaUrl(media) ==
  IF Get(media, "type") = Str("external")
  THEN Get(Get(media, "external"), "url")
  ELSE Get(Get(media, "file"), "url")

ImageBlock(block) ==
  LET imageUrl == MediaUrl(Get(block, "image"))
      caption == Get(Get(block, "image"), "caption")
      altText == IF Truthy(caption) /\ LengthPositive(caption)
                 THEN PlainTexts(caption)
                 ELSE Return(Str("Notion image"))
  IN IF altText.outcome = "threw"
     THEN altText
     ELSE IF ~Truthy(imageUrl)
          THEN Return(Notice("image-url-not-found"))
          ELSE Element("figure", <<>>,
                       <<Return(Node("img", << <<"src", imageUrl>>, <<"alt", altText.value>> >>,
                                     <<>>)),
                         Guarded(caption, Element("figcaption", <<>>, <<RichText(caption)>>))>>)

BookmarkBlock(block) ==
  LET url == Get(Get(block, "bookmark"), "url")
      caption == Get(Get(block, "bookmark"), "caption")
  IN IF ~Truthy(url)
     THEN Return(Notice("bookmark-url-not-found"))
     ELSE Element("a", << <<"href", url>>, <<"target", Str("_blank")>>,
                          <<"rel", Str("noopener noreferrer")>> >>,
                  <<Element("div", <<>>, <<Child(url)>>),
                    Guarded(caption, Element("div", <<>>, <<RichText(caption)>>))>>)

CalloutBlock(block) ==
  LET icon == Get(Get(block, "callout"), "icon")
      shown == IF Get(icon, "type") = Str("emoji")
               THEN Get(icon, "emoji")
               ELSE IF Get(icon, "type") = Str("external") THEN Str("link") ELSE Str("bulb")
  IN Element("div", <<>>,
             <<Element("div", <<>>, <<Child(shown)>>),
               Element("div", <<>>, <<RichText(Get(Get(block, "callout"), "rich_text"))>>)>>)

(* if (!block.children) *)
TableDataNeverMissing(children) == FALSE

TableDataMissing(children) == ~Truthy(children)

TableBlock(block) ==
  LET children == Get(block, "children")
      (* row.table_row?.cells?.map((cell, j) => <Tag>...</Tag>) *)
      Cells(cells, Tag) ==
        IF IsNullish(cells)
        THEN <<Child(cells)>>
        ELSE IF cells.kind = "array"
             THEN [j \in DOMAIN cells.items |-> Element(Tag, <<>>, <<RichText(cells.items[j])>>)]
             ELSE <<Throw("TypeError")>>
      (* the callback of block.children.map; i counts from 1 here *)
      TableRow(row, i) ==
        IF IsNullish(row)
        THEN Throw("TypeError")
        ELSE IF Get(row, "type") # Str("table_row")
             THEN Return(Null)
             ELSE LET header == i = 1 /\ Truthy(Get(Get(block, "table"), "has_column_header"))
                  IN Element("tr",
                             << <<"className", Str(IF header THEN "bg-gray-100" ELSE "")>> >>,
                             Cells(Get(Get(row, "table_row"), "cells"),
                                   IF header THEN "th" ELSE "td"))
  IN IF TableDataMissing(children)
     THEN Return(Notice("table-data-not-found"))
     ELSE IF children.kind = "array"
          THEN Element("div", <<>>,
                 <<Element("table", <<>>,
                     <<Element("tbody", <<>>,
                         [i \in DOMAIN children.items |-> TableRow(children.items[i], i)])>>)>>)
          ELSE Throw("TypeError")

ColumnListBlock(block) ==
  LET children == Get(block, "children")
      (* the callback of block.children.map *)
      Column(column) ==
        IF IsNullish(column)
        THEN Throw("TypeError")
        ELSE Element("div", <<>>,
                     IF ~Truthy(Get(column, "children"))
                     THEN <<Child(Get(column, "children"))>>
                     ELSE ChildBlocks(Get(column, "children")))
  IN IF ~Truthy(children)
     THEN Return(Null)
     ELSE IF children.kind = "array"
          THEN Element("div", <<>>, [i \in DOMAIN children.items |-> Column(children.items[i])])
          ELSE Throw("TypeError")

EmbedBlock(block) ==
  LET url == Get(Get(block, "embed"), "url")
      caption == Get(Get(block, "embed"), "caption")
  IN IF ~Truthy(url)
     THEN Return(Notice("embed-url-not-found"))
     ELSE Element("div", <<>>,
                  <<Return(Node("iframe", << <<"src", url>>, <<"title", Str("Embedded content")>> >>,
                                <<>>)),
                    Guarded(caption, Element("div", <<>>, <<RichText(caption)>>))>>)

LinkPreviewBlock(block) ==
  LET url == Get(Get(block, "link_preview"), "url")
  IN IF ~Truthy(url)
     THEN Return(Notice("link-preview-url-not-found"))
     ELSE Element("a", << <<"href", url>>, <<"target", Str("_blank")>>,
                          <<"rel", Str("noopener noreferrer")>> >>,
                  <<Element("div", <<>>, <<Child(url)>>)>>)

VideoBlock(block) ==
  LET videoUrl == MediaUrl(Get(block, "video"))
      caption == Get(Get(block, "video"), "caption")
  IN IF ~Truthy(videoUrl)
     THEN Return(Notice("video-url-not-found"))
     ELSE Element("div", <<>>,
                  <<Return(Node("iframe", << <<"src", videoUrl>>, <<"title", Str("Video content")>> >>,
                                <<>>)),
                    Guarded(caption, Element("div", <<>>, <<RichText(caption)>>))>>)

EquationBlock(block) ==
  LET expression == Get(Get(block, "equation"), "expression")
  IN IF ~Truthy(expression)
     THEN Return(Notice("equation-not-found"))
     ELSE Element("div", << <<"className", Str("font-mono")>> >>, <<Child(expression)>>)

UnsupportedBlock(block) ==
  Element("div", << <<"className", Str("unsupported")>> >>,
          <<Element("p", <<>>,
                    <<Return(TextNode(Str("unsupported-block-type: "))),
                      Child(Get(block, "type"))>>)>>)

(* the block types getBlockComponent has a case for *)
Cases ==
  {"paragraph", "heading_1", "heading_2", "heading_3", "bulleted_list_item",
   "numbered_list_item", "to_do", "toggle", "code", "quote", "divider", "image",
   "bookmark", "callout", "table", "column_list", "embed", "video", "equation",
   "link_preview"}

(* switch (block.type): the element returned, rendered *)
getBlockComponent(block) ==
  LET type == Get(block, "type")
  IN CASE type = Str("paragraph") -> ParagraphBlock(block)
       [] type = Str("heading_1") -> Heading1Block(block)
       [] type = Str("heading_2") -> Heading2Block(block)
       [] type = Str("heading_3") -> Heading3Block(block)
       [] type = Str("bulleted_list_item") -> BulletedListItemBlock(block)
       [] type = Str("numbered_list_item") -> NumberedListItemBlock(block)
       [] type = Str("to_do") -> ToDoBlock(block)
       [] type = Str("toggle") -> ToggleBlock(block)
       [] type = Str("code") -> CodeBlock(block)
       [] type = Str("quote") -> QuoteBlock(block)
       [] type = Str("divider") -> DividerBlock
       [] type = Str("image") -> ImageBlock(block)
       [] type = Str("bookmark") -> BookmarkBlock(block)
       [] type = Str("callout") -> CalloutBlock(block)
       [] type = Str("table") -> TableBlock(block)
       [] type = Str("column_list") -> ColumnListBlock(block)
       [] type = Str("embed") -> EmbedBlock(block)
       [] type = Str("video") -> VideoBlock(block)
       [] type = Str("equation") -> EquationBlock(block)
       [] type = Str("link_preview") -> LinkPreviewBlock(block)
       [] OTHER -> UnsupportedBlock(block)

NotionBlock(block) == IF ~Truthy(block) THEN Return(Null) ELSE getBlockComponent(block)

(* The renderer applied to block lists, blocks and rich text *)
Apply(op, arg, out) ==
  /\ ret' = [Idle EXCEPT !.pc = "done", !.op = op, !.arg = arg, !.outcome = out.outcome,
                          !.result = out.value]
  /\ lastClear' = NoClear
  /\ UNCHANGED <<now, env, remoteVer, cache, tasks>>

GroupTypes == {"bulleted_list_item", "numbered_list_item", "paragraph"}

TypedBlocks(types) ==
  LET BlockNames == <<"b1", "b2", "b3", "b4", "b5", "b6">>
  IN Arr([i \in 1..Len(types) |-> Obj([id |-> Str(BlockNames[i]), type |-> Str(types[i])])])

Group(blocks) == Apply("groupBlocks", <<blocks>>, Return(groupBlocks(blocks)))

(* Rich text and blocks handed to the renderer *)
RichTexts ==
  LET Spans ==
        {Obj([annotations |-> Obj(NoFields), plain_text |-> Str("x")]),
         Obj([annotations |-> Obj([color |-> Str("red_background"), bold |-> Bool(TRUE),
                                   code |-> Bool(TRUE)]),
              type |-> Str("text"), plain_text |-> Str("y"), href |-> Str("u")]),
         Obj([annotations |-> Obj([color |-> Num(1)]), plain_text |-> Str("x")]),
         Obj([annotations |-> Null, plain_text |-> Str("x")]),
         Obj([plain_text |-> Str("x")]),
         Null}
      (* one span for every combination of the flags, with and without href *)
      Flagged ==
        {Obj([annotations |-> Obj([color |-> Str("default"), bold |-> Bool(f[1]),
                                   code |-> Bool(f[5]), italic |-> Bool(f[2]),
                                   strikethrough |-> Bool(f[3]), underline |-> Bool(f[4])]),
              type |-> Str("text"), plain_text |-> Str("z"), href |-> href]) :
           f \in [1..5 -> BOOLEAN], href \in {Null, Str("u")}}
  IN {Undefined, Null}
       \cup UNION {{Arr(spans) : spans \in [1..n -> Spans]} : n \in 0..MaxSpans}
       \cup {Arr(<<span>>) : span \in Flagged}

Blocks ==
  LET TypeOnly(t) == Obj([type |-> Str(t)])
      Media(t, url) ==
        Obj([type |-> Str(t), external |-> Obj([url |-> url]), file |-> Obj(NoFields)])
  IN {Undefined, Null, Obj(NoFields)}
       \cup {TypeOnly(t) :
               t \in Cases \cup {"table_row", "column", "unsupported", "unknown_type"}}
       \cup {Obj([type |-> Str("paragraph"), paragraph |-> Obj([rich_text |-> richText])]) :
               richText \in RichTexts}
       \cup {Obj([type |-> Str("image"), image |-> Media("external", Str("u"))]),
             Obj([type |-> Str("image"), image |-> Media("file", Str("u"))]),
             Obj([type |-> Str("image"),
                  image |-> Obj([type |-> Str("file"), file |-> Obj([url |-> Str("u")])])]),
             Obj([type |-> Str("image"), image |-> Obj([type |-> Str("external")])]),
             Obj([type |-> Str("image"), image |-> Obj(NoFields)]),
             Obj([type |-> Str("image"), image |-> Null]),
             Obj([type |-> Str("video"), video |-> Media("external", Str("u"))]),
             Obj([type |-> Str("video"), video |-> Media("external", Str(""))]),
             Obj([type |-> Str("video"), video |-> Obj(NoFields)]),
             Obj([type |-> Str("bookmark"), bookmark |-> Obj([url |-> Str("u")])]),
             Obj([type |-> Str("bookmark"), bookmark |-> Obj(NoFields)]),
             Obj([type |-> Str("embed"), embed |-> Obj([url |-> Str("u")])]),
             Obj([type |-> Str("embed"), embed |-> Obj([url |-> Null])]),
             Obj([type |-> Str("link_preview"), link_preview |-> Obj([url |-> Str("u")])]),
             Obj([type |-> Str("link_preview"), link_preview |-> Obj(NoFields)]),
             Obj([type |-> Str("equation"), equation |-> Obj([expression |-> Str("e")])]),
             Obj([type |-> Str("equation"), equation |-> Obj([expression |-> Str("")])]),
             Obj([children |-> Arr(<<Obj([type |-> Str("table_row"),
                                          table_row |-> Obj([cells |-> Arr(<<Arr(<<>>)>>)])])>>), type |-> Str("table"),
                  table |-> Obj([has_column_header |-> Bool(TRUE)])]),
             Obj([children |-> Arr(<<>>), type |-> Str("table")]),
             Obj([children |-> Null, type |-> Str("table"),
                  table |-> Obj([has_column_header |-> Bool(TRUE)])]),
             Obj([children |-> Arr(<<TypeOnly("table_row"), TypeOnly("image")>>),
                  type |-> Str("toggle")]),
             Obj([children |-> Arr(<<Obj([children |-> Arr(<<TypeOnly("paragraph")>>),
                                          type |-> Str("column")])>>),
                  type |-> Str("column_list")])}

RenderBlock(block) == Apply("NotionBlock", <<block>>, NotionBlock(block))

RenderRichText(richText) == Apply("RichText", <<richText>>, RichText(richText))

NextRender ==
  \/ Group(Undefined)
  \/ \E n \in 0..MaxBlocks : \E types \in [1..n -> GroupTypes] : Group(TypedBlocks(types))
  \/ \E block \in Blocks : RenderBlock(block)
  \/ \E richText \in RichTexts : RenderRichText(richText)

SpecRender == Init /\ [][NextRender]_vars

----------------------------------------------------------------------------
(* Properties of the cache (specification Spec)                            *)

(* the lookup of rec found an entry, unexpired and not past the threshold *)
InFreshWindow(item, t) ==
  /\ item.kind = "entry"
  /\ t < item.expiresAt
  /\ t * 10 <= item.timestamp * 10 + TTL * 8

(* the lookup of rec found an entry, unexpired and past the threshold *)
InRefreshWindow(item, t) ==
  /\ item.kind = "entry"
  /\ t < item.expiresAt
  /\ t * 10 > item.timestamp * 10 + TTL * 8

BusySlots(ts) == {s \in Slots : ts[s].pc # "idle"}

(* C1: a lookup that finds an entry with now < expiresAt and                *)
(* now <= storedAt + 0.8 * ttl returns the stored data, invokes the fetch   *)
(* function zero times, issues no remote call and starts no task.           *)
C1_FreshLookupServesStored ==
  [][ (ret'.pc = "done" /\ ret'.lookedUp /\ InFreshWindow(ret'.item, ret'.t0))
        => /\ ret'.outcome = "returned"
           /\ ret'.item = CacheGet(cache, ret'.key)
           /\ ret'.result = CacheGet(cache, ret'.key).data
           /\ ret'.fetches = 0
           /\ ret'.calls = ZeroCalls
           /\ tasks' = tasks
           /\ cache' = cache ]_vars

C1_Witness ==
  /\ ret.pc = "done"
  /\ ret.op = "getPage"
  /\ InFreshWindow(ret.item, ret.t0)
  /\ ret.t0 = ret.item.timestamp + 8
  /\ ret.result = ret.item.data
  /\ ret.result.v # remoteVer

(* C2: a lookup that finds an unexpired entry past the refresh threshold    *)
(* starts exactly one background fetch and returns the stored data in the   *)
(* same step, while that fetch is still outstanding; the cache is not       *)
(* touched by the lookup itself.                                            *)
C2_RefreshLookupServesStored ==
  [][ (ret'.pc = "done" /\ ret'.lookedUp /\ InRefreshWindow(ret'.item, ret'.t0))
        => /\ ret'.outcome = "returned"
           /\ ret'.result = CacheGet(cache, ret'.key).data
           /\ cache' = cache
           /\ \E b \in Slots :
                /\ tasks[b].pc = "idle"
                /\ tasks'[b].pc = "remote"
                /\ tasks'[b].mode = "bg"
                /\ tasks'[b].key = ret'.key
                /\ \A s \in Slots \ {b} : tasks'[s] = tasks[s] ]_vars

C2_Witness ==
  /\ ret.pc = "done"
  /\ ret.op = "getPage"
  /\ InRefreshWindow(ret.item, ret.t0)
  /\ ret.result = ret.item.data
  /\ ret.result.v # remoteVer
  /\ \E b \in Slots : tasks[b].mode = "bg" /\ tasks[b].pc = "remote" /\ tasks[b].key = ret.key

(* C3: when a lookup found an expired entry and its fetch fails, it returns *)
(* the expired entry's data instead of raising, and the step leaves the     *)
(* cache exactly as it was.                                                 *)
C3_StaleFallback ==
  [][ (/\ ret'.pc = "done"
       /\ ret'.fetched = "threw"
       /\ ret'.item.kind = "entry"
       /\ ret'.t0 >= ret'.item.expiresAt)
        => /\ ret'.outcome = "returned"
           /\ ret'.result = ret'.item.data
           /\ cache' = cache ]_vars

C3_Witness ==
  /\ ret.pc = "done"
  /\ ret.fetched = "threw"
  /\ ret.item.kind = "entry"
  /\ ret.outcome = "returned"
  /\ CacheGet(cache, ret.key) = ret.item
  /\ now >= ret.item.expiresAt

(* C4: when a lookup found no entry and its fetch fails, the error reaches  *)
(* the caller and the step stores nothing in the cache.                     *)
C4_MissFailurePropagates ==
  [][ (ret'.pc = "done" /\ ret'.fetched = "threw" /\ ret'.item = Undefined)
        => /\ ret'.outcome = "threw"
           /\ ret'.result.kind = "error"
           /\ cache' = cache ]_vars

C4_Witness ==
  /\ ret.pc = "done"
  /\ ret.op = "getPage"
  /\ ret.fetched = "threw"
  /\ ret.item = Undefined
  /\ ret.outcome = "threw"
  /\ ret.key \notin DOMAIN cache

(* key begins with the tokens of keyPrefix *)
HasPrefix(key, keyPrefix) == \E n \in 0..Len(key) : SubSeq(key, 1, n) = keyPrefix

(* C5: clearCache(prefix) removes exactly the entries whose key starts with *)
(* prefix and leaves every other entry unchanged; clearCache() removes all. *)
C5_ClearRemovesExactlyPrefix ==
  [][ lastClear'.op = "clearCache"
        => /\ DOMAIN cache' \subseteq DOMAIN cache
           /\ \A k \in DOMAIN cache :
                IF lastClear'.keyPrefix = NoPrefix \/ HasPrefix(k, lastClear'.keyPrefix)
                THEN k \notin DOMAIN cache'
                ELSE k \in DOMAIN cache' /\ cache'[k] = cache[k] ]_vars

C5_Witness ==
  /\ lastClear.op = "clearCache"
  /\ lastClear.keyPrefix = <<"page", ":">>
  /\ lastClear.removed = {CacheKey("getPage", <<"p1">>)}
  /\ CacheKey("getFormattedDatabase", <<"true", "Public">>) \in DOMAIN cache

(* C6: once clearCache has removed the entry a lookup read, a later failure *)
(* of that lookup's fetch propagates: the removed entry's data is not       *)
(* returned as a stale fallback.                                            *)
C6_NoFallbackAfterClear ==
  (ret.pc = "done" /\ ret.cleared /\ ret.fetched = "threw") => ret.outcome = "threw"

----------------------------------------------------------------------------
(* Properties of the client operations                                     *)

(* C7: with the collection identifier unset, getFormattedDatabase,          *)
(* getPageBySlug, getPagesByTag and getPagesByCategory throw the            *)
(* Configuration error at once: no cache lookup, no fetch, no remote call.  *)
C7_ConfigurationErrorBeforeCache ==
  /\ (/\ ret.pc = "done"
      /\ ret.op \in {"getFormattedDatabase", "getPageBySlug", "getPagesByTag",
                     "getPagesByCategory"}
      /\ ~ret.envAtCall)
       => /\ ret.outcome = "threw"
          /\ ret.result = Error(ConfigMsg)
          /\ ~ret.lookedUp
          /\ ret.fetches = 0
          /\ ret.calls = ZeroCalls
  /\ \A s \in Slots :
       (tasks[s].pc # "idle" /\ tasks[s].op \in {"getFormattedDatabase", "getPageBySlug",
                                                 "getPagesByTag", "getPagesByCategory"})
         => tasks[s].envAtCall

C7_Witness ==
  /\ ret.pc = "done"
  /\ ret.op = "getPagesByTag"
  /\ ~ret.envAtCall
  /\ ret.outcome = "threw"
  /\ IsUnexpired(CacheGet(cache, CacheKey(ret.op, ret.arg)), now)

(* C8: with the collection identifier unset, getAllTags and                 *)
(* getAllCategories fail with an error carrying the Configuration message   *)
(* and never return a list, whatever the cache holds.                       *)
C8_AggregatesFailWhenUnset ==
  (ret.pc = "done" /\ ret.op \in {"getAllTags", "getAllCategories"} /\ ~ret.envAtCall)
    => (ret.outcome = "threw" /\ Includes(ret.result.msg, ConfigMsg[1]))

(* C9: getPageBySlug whose query returns zero results resolves to null,     *)
(* raises nothing and issues no page-retrieve and no block-list call.       *)
(* It settles in the step that receives the query response, which starts   *)
(* no nested call.                                                          *)
C9_MissingSlugIsNull ==
  [][ (ret'.pc = "done" /\ ret'.op = "getPageBySlug" /\ ret'.nres = 0)
        => /\ ret'.outcome = "returned"
           /\ ret'.result = Null
           /\ ret'.calls = [query |-> 1, retrieve |-> 0, list |-> 0]
           /\ \E s \in Slots : tasks[s].pc = "remote" /\ tasks[s].op = "getPageBySlug"
           /\ Cardinality(BusySlots(tasks')) = Cardinality(BusySlots(tasks)) - 1 ]_vars

C9_Witness ==
  /\ ret.pc = "done"
  /\ ret.op = "getPageBySlug"
  /\ ret.arg = <<"missing">>
  /\ ret.nres = 0
  /\ ret.result = Null

BlockIds(blocks) == [i \in 1..Len(blocks) |-> blocks[i].id]

(* C10: an uncached block fetch of an id whose children come in P pages     *)
(* issues exactly P list calls for the id, each with page size 100, and     *)
(* returns the concatenation of the P result lists in page order.           *)
C10_PaginationConcatenates ==
  (ret.pc = "done" /\ ret.op = "getBlocks" /\ ret.fetched = "returned")
    => LET pages == BlockPages(ret.arg[1], 0)
       IN /\ Len(ret.reqs) = Len(pages)
          /\ \A i \in 1..Len(ret.reqs) : ret.reqs[i].page_size = 100
          /\ ret.outcome = "returned"
          /\ BlockIds(ret.result) = Concat([i \in 1..Len(pages) |-> BlockIds(pages[i])])

C10_Witness ==
  /\ ret.pc = "done"
  /\ ret.op = "getBlocks"
  /\ ret.arg = <<"z0">>
  /\ ret.fetched = "returned"
  /\ Len(ret.reqs) = MaxPages
  /\ Len(ret.result) = MaxPages

(* the ids a block fetch of id returns, page by page *)
ListedIds(id) ==
  LET pages == BlockPages(id, 0)
  IN Concat([i \in 1..Len(pages) |-> BlockIds(pages[i])])

RECURSIVE ChildrenResolved(_)
ChildrenResolved(blocks) ==
  \A i \in 1..Len(blocks) :
    IF blocks[i].has_children
    THEN /\ blocks[i].children # Undefined
         /\ BlockIds(blocks[i].children.items) = ListedIds(blocks[i].id)
         /\ ChildrenResolved(blocks[i].children.items)
    ELSE blocks[i].children = Undefined

(* C11: a block fetch that returns has set the children of every block      *)
(* flagged has_children to the block fetch of that block's id, recursively, *)
(* and of no other block; the step in which its fetch returns is taken by a *)
(* call none of whose child fetches is still outstanding.                   *)
C11_ChildrenBeforeReturn ==
  [][ (ret'.pc = "done" /\ ret'.op = "getBlocks" /\ ret'.outcome = "returned")
        => /\ ChildrenResolved(ret'.result)
           /\ ret'.fetched = "returned"
                => \E s \in Slots :
                     /\ tasks[s].op = "getBlocks"
                     /\ tasks[s].arg = ret'.arg
                     /\ tasks[s].parent = 0
                     /\ tasks[s].pc \in {"remote", "await"}
                     /\ tasks[s].pending = 0
                     /\ \A r \in Slots : tasks[r].pc # "idle" => tasks[r].parent # s ]_vars

C11_Witness ==
  /\ ret.pc = "done"
  /\ ret.op = "getBlocks"
  /\ ret.arg = <<"p1">>
  /\ ret.fetched = "returned"
  /\ ret.result[1].has_children
  /\ ret.result[1].children = Children(<<Block("y1", FALSE, 0)>>)
  /\ ret.result[2].children = Undefined
  /\ ret.calls.list = 3

(* C12: a page fetch or block fetch whose remote call fails with an error   *)
(* text, and which has no stored entry to fall back on, throws the message   *)
(* of the first marker the text contains in the order 404, 401 or 403, 429:  *)
(* not found (with the id), no access (with the id), rate limited; without   *)
(* a marker, the generic message followed by the text.                       *)
C12_FetchErrorClassified ==
  (/\ ret.pc = "done"
   /\ ret.op \in {"getPage", "getBlocks"}
   /\ ret.cause # <<>>
   /\ ret.item = Undefined)
    => LET text == ret.cause
           id == ret.arg[1]
           what == IF ret.op = "getPage" THEN "page" ELSE "block"
       IN /\ ret.outcome = "threw"
          /\ ret.result.kind = "error"
          /\ ret.result.msg =
               IF \E i \in 1..Len(text) : text[i] = "404"
               THEN IF what = "page" THEN <<"page-not-found", id>> ELSE <<"block-not-found", id>>
               ELSE IF \E i \in 1..Len(text) : text[i] \in {"401", "403"}
               THEN IF what = "page" THEN <<"page-no-access", id>> ELSE <<"block-no-access", id>>
               ELSE IF \E i \in 1..Len(text) : text[i] = "429"
               THEN <<"rate-limited">>
               ELSE IF what = "page" THEN <<"page-fetch-failed:">> \o text
                    ELSE <<"block-fetch-failed:">> \o text

C12_Witness ==
  /\ ret.pc = "done"
  /\ ret.op = "getPage"
  /\ ret.cause = <<"429", "after", "404">>
  /\ ret.outcome = "threw"
  /\ ret.result.msg = <<"page-not-found", "p1">>

(* C13: a database listing whose remote query fails with an error text that *)
(* contains 429 (and none of 404, 401, 403) throws the rate-limit message,   *)
(* as the page fetch does.                                                   *)
C13_DatabaseRateLimited ==
  (/\ ret.pc = "done"
   /\ ret.op = "getFormattedDatabase"
   /\ ret.cause = <<"429", "Too Many Requests">>
   /\ ret.item = Undefined)
    => (ret.outcome = "threw" /\ ret.result.msg = <<"rate-limited">>)

----------------------------------------------------------------------------
(* Properties of the search (specification SpecSearch)                     *)

AllWhitespace(query) == \A i \in 1..Len(query) : query[i] \in {" ", "tab"}

(* C14: every searchPages call with a non-blank query that returns a result *)
(* has caused a remote query of the collection: it is never answered from   *)
(* stored data.                                                              *)
C14_SearchAlwaysQueries ==
  (/\ ret.pc = "done"
   /\ ret.op = "searchPages"
   /\ ~AllWhitespace(ret.arg[1])
   /\ ret.outcome = "returned")
    => ret.calls.query >= 1

(* C15: searchPages with an empty or whitespace-only query returns the      *)
(* empty list in the step of the call, which issues no remote call, starts  *)
(* no task and leaves the cache as it was, whatever the environment is.     *)
C15_BlankQueryShortCircuits ==
  [][ (ret'.pc = "done" /\ ret'.op = "searchPages" /\ AllWhitespace(ret'.arg[1]))
        => /\ ret'.outcome = "returned"
           /\ ret'.result = <<>>
           /\ ret'.calls = ZeroCalls
           /\ ~ret'.lookedUp
           /\ tasks' = tasks
           /\ cache' = cache ]_vars

C15_Witness ==
  /\ ret.pc = "done"
  /\ ret.op = "searchPages"
  /\ ret.arg = << <<" ", "tab">> >>
  /\ ret.result = <<>>
  /\ ~ret.envAtCall
  /\ cache # << >>

----------------------------------------------------------------------------
(* Properties of the renderer (specification SpecRender)                   *)

Grouped == ret.pc = "done" /\ ret.op = "groupBlocks"

(* the blocks of the input of the call *)
InputBlocks == IF ret.arg[1].kind = "array" THEN ret.arg[1].items ELSE <<>>

(* C16: no two adjacent units of the grouper's output are list containers   *)
(* of the same kind.                                                         *)
C16_NoAdjacentSameKindLists ==
  Grouped =>
    \A i \in 1..(Len(ret.result) - 1) :
      ~(/\ ret.result[i].unit = "list"
        /\ ret.result[i + 1].unit = "list"
        /\ ret.result[i].tag = ret.result[i + 1].tag)

C16_Witness ==
  /\ Grouped
  /\ Len(ret.result) = 3
  /\ ret.result[1].unit = "list" /\ ret.result[1].tag = "ul"
  /\ ret.result[2].unit = "block"
  /\ ret.result[3].unit = "list" /\ ret.result[3].tag = "ul"

(* the blocks a unit holds, in order *)
UnitBlocks(u) ==
  CASE u.unit = "list" -> [i \in 1..Len(u.items) |-> u.items[i].block]
    [] u.unit = "block" -> <<u.block>>
    [] OTHER -> <<>>

TypeOf(block) == block.fields.type.s

KindOf(block) ==
  CASE TypeOf(block) = "bulleted_list_item" -> "ul"
    [] TypeOf(block) = "numbered_list_item" -> "ol"
    [] OTHER -> "none"

(* the positions of the input at which a maximal run of list items starts *)
RunStarts(blocks) ==
  {i \in 1..Len(blocks) :
     KindOf(blocks[i]) # "none" /\ (i = 1 \/ KindOf(blocks[i - 1]) # KindOf(blocks[i]))}

Standalone(blocks) == {i \in 1..Len(blocks) : KindOf(blocks[i]) = "none"}

(* C17: for a non-empty input the units hold the input blocks, each once    *)
(* and in input order; every list container holds items of one kind, which  *)
(* its tag names (bulleted: ul, numbered: ol); every other unit is one      *)
(* non-list block; and there are as many units as maximal runs of same-kind *)
(* list items plus non-list blocks.  For the empty input the output is the  *)
(* single empty-state unit.                                                  *)
C17_OneContainerPerRun ==
  Grouped =>
    IF InputBlocks = <<>>
    THEN ret.result = <<[text |-> "no-content", unit |-> "empty"]>>
    ELSE /\ Concat([i \in 1..Len(ret.result) |-> UnitBlocks(ret.result[i])]) = InputBlocks
         /\ \A i \in 1..Len(ret.result) :
              LET u == ret.result[i]
              IN CASE u.unit = "list" ->
                        /\ Len(u.items) > 0
                        /\ \A j \in 1..Len(u.items) :
                             u.items[j].unit = "block" /\ KindOf(u.items[j].block) = u.tag
                   [] u.unit = "block" -> KindOf(u.block) = "none"
                   [] OTHER -> FALSE
         /\ Len(ret.result) = Cardinality(RunStarts(InputBlocks))
                               + Cardinality(Standalone(InputBlocks))

C17_Witness ==
  /\ Grouped
  /\ Len(InputBlocks) = 3
  /\ Len(ret.result) = 2
  /\ ret.result[1].unit = "list" /\ ret.result[1].tag = "ul" /\ Len(ret.result[1].items) = 2
  /\ ret.result[2].unit = "list" /\ ret.result[2].tag = "ol" /\ Len(ret.result[2].items) = 1


(* the block types of the data model that have a markup shape of their own *)
Enumerated == Cases \cup {"table_row", "column"}

(* the render of one block object with a string type has finished *)
BlockRendered ==
  /\ ret.pc = "done"
  /\ ret.op = "NotionBlock"
  /\ ret.outcome = "returned"
  /\ ret.arg[1].kind = "object"
  /\ Get(ret.arg[1], "type").kind = "string"

IsUnsupportedNotice(node, type) ==
  /\ "el" \in DOMAIN node
  /\ node.el = "div"
  /\ node.attrs = << <<"className", Str("unsupported")>> >>
  /\ node.kids[1].kids = <<TextNode(Str("unsupported-block-type: ")), TextNode(type)>>

(* C18: a block renders the unsupported-type notice naming its type if and  *)
(* only if its type is none of the block types enumerated in the data      *)
(* model; every enumerated type is dispatched to a component of its own.   *)
C18_FallbackIffNotEnumerated ==
  BlockRendered
    => LET type == Get(ret.arg[1], "type")
       IN /\ IsUnsupportedNotice(ret.result, type) <=> type.s \notin Enumerated
          /\ type.s \in Enumerated => ret.result # UnsupportedBlock(ret.arg[1]).value


(* the node is an error notice of a block component *)
IsNotice(node) ==
  /\ node.el = "div"
  /\ node.attrs = << <<"className", Str("text-red-500")>> >>

(* the resource the component of the block requires is absent *)
ResourceAbsent(block) ==
  LET type == Get(block, "type")
      NoUrl(media) == /\ ~Truthy(Get(Get(media, "external"), "url"))
                      /\ ~Truthy(Get(Get(media, "file"), "url"))
  IN CASE type = Str("image") -> NoUrl(Get(block, "image"))
       [] type = Str("video") -> NoUrl(Get(block, "video"))
       [] type = Str("bookmark") -> ~Truthy(Get(Get(block, "bookmark"), "url"))
       [] type = Str("embed") -> ~Truthy(Get(Get(block, "embed"), "url"))
       [] type = Str("link_preview") -> ~Truthy(Get(Get(block, "link_preview"), "url"))
       [] type = Str("equation") -> ~Truthy(Get(Get(block, "equation"), "expression"))
       [] type = Str("table") -> IsNullish(Get(block, "children"))
       [] OTHER -> FALSE

NoticeText(type) ==
  CASE type = Str("image") -> "image-url-not-found"
    [] type = Str("video") -> "video-url-not-found"
    [] type = Str("bookmark") -> "bookmark-url-not-found"
    [] type = Str("embed") -> "embed-url-not-found"
    [] type = Str("link_preview") -> "link-preview-url-not-found"
    [] type = Str("equation") -> "equation-not-found"
    [] OTHER -> "table-data-not-found"

(* C19: a block whose required resource is absent (an image or video with  *)
(* neither external.url nor file.url, a bookmark, embed or link preview    *)
(* without url, an equation without expression, a table without children)  *)
(* renders the error notice of its component and does not fail the render. *)
C19_MissingResourceShowsNotice ==
  (/\ ret.pc = "done"
   /\ ret.op = "NotionBlock"
   /\ ret.arg[1].kind = "object"
   /\ ResourceAbsent(ret.arg[1]))
    => /\ ret.outcome = "returned"
       /\ ret.result = Notice(NoticeText(Get(ret.arg[1], "type")))
       /\ IsNotice(ret.result)

C19_Witness ==
  /\ ret.pc = "done"
  /\ ret.op = "NotionBlock"
  /\ ret.arg = <<Obj([type |-> Str("image"), image |-> Obj([type |-> Str("external")])])>>
  /\ ResourceAbsent(ret.arg[1])
  /\ ret.outcome = "returned"
  /\ ret.result = Notice("image-url-not-found")

(* C20: rendering raises no error for any input shape: every block and     *)
(* every rich text, also with absent, empty or malformed annotations and   *)
(* with an absent payload, produces output.                                *)
C20_RenderNeverThrows ==
  (ret.pc = "done" /\ ret.op \in {"NotionBlock", "RichText", "groupBlocks"})
    => ret.outcome = "returned"


(* a call of the rich-text renderer has finished *)
RichTextRendered == ret.pc = "done" /\ ret.op = "RichText"

(* the spans of the input of the call *)
SpanItems == IF ret.arg[1].kind = "array" THEN ret.arg[1].items ELSE <<>>

(* a span of the data model: annotations present, color absent or a string *)
WellFormedSpan(text) ==
  /\ text.kind = "object"
  /\ Get(text, "annotations").kind = "object"
  /\ Get(Get(text, "annotations"), "color").kind \in {"undefined", "string"}

(* the tags from a node down to its text, outermost first *)
RECURSIVE Chain(_)
Chain(node) == IF node.el = "#text" THEN <<"#text">> ELSE <<node.el>> \o Chain(node.kids[1])

(* the text a node wraps *)
RECURSIVE InnerText(_)
InnerText(node) == IF node.el = "#text" THEN node.attrs[1][2] ELSE InnerText(node.kids[1])

(* C21: the rich-text renderer emits one unit per span, the n-th unit for   *)
(* the n-th span; an empty or absent span sequence yields no output.        *)
C21_OneUnitPerSpanInOrder ==
  (RichTextRendered /\ \A i \in DOMAIN SpanItems : WellFormedSpan(SpanItems[i]))
    => /\ ret.outcome = "returned"
       /\ IF SpanItems = <<>>
          THEN ret.result = Null
          ELSE /\ ret.result.el = "Fragment"
               /\ Len(ret.result.kids) = Len(SpanItems)
               /\ \A i \in DOMAIN SpanItems :
                    /\ ret.result.kids[i].el \in {"a", "span"}
                    /\ InnerText(ret.result.kids[i]) = Get(SpanItems[i], "plain_text")

C21_Witness ==
  /\ RichTextRendered
  /\ Len(SpanItems) = 2
  /\ WellFormedSpan(SpanItems[1]) /\ WellFormedSpan(SpanItems[2])
  /\ Get(SpanItems[1], "plain_text") = Str("x")
  /\ Get(SpanItems[2], "plain_text") = Str("y")
  /\ ret.outcome = "returned"
  /\ InnerText(ret.result.kids[1]) = Str("x")
  /\ InnerText(ret.result.kids[2]) = Str("y")

(* the wrappers of the set flags, outermost first *)
Wrappers(annotations) ==
  LET On(name, el) == IF Truthy(Get(annotations, name)) THEN <<el>> ELSE <<>>
  IN On("underline", "u") \o On("strikethrough", "del") \o On("italic", "em")
       \o On("bold", "strong") \o On("code", "code")

HasAttr(node, name, value) == \E i \in DOMAIN node.attrs : node.attrs[i] = <<name, value>>

(* C22: around the plain text of a span the wrappers of the set flags are   *)
(* nested, innermost first, in the order code, bold, italic,                *)
(* strikethrough, underline; the outermost element is a hyperlink opening  *)
(* a new browsing context with noopener noreferrer when href is present,   *)
(* and a plain span otherwise.                                             *)
C22_WrapperOrder ==
  (/\ RichTextRendered
   /\ SpanItems # <<>>
   /\ \A i \in DOMAIN SpanItems : WellFormedSpan(SpanItems[i]))
    => /\ ret.outcome = "returned"
       /\ \A i \in DOMAIN SpanItems :
            LET text == SpanItems[i]
                unit == ret.result.kids[i]
                href == Get(text, "href")
            IN /\ Chain(unit) = <<IF Truthy(href) THEN "a" ELSE "span">>
                                   \o Wrappers(Get(text, "annotations"))
                                   \o <<"Fragment", "#text">>
               /\ InnerText(unit) = Get(text, "plain_text")
               /\ Truthy(href)
                    => /\ HasAttr(unit, "href", href)
                       /\ HasAttr(unit, "target", Str("_blank"))
                       /\ HasAttr(unit, "rel", Str("noopener noreferrer"))

C22_Witness ==
  /\ RichTextRendered
  /\ Len(SpanItems) = 1
  /\ WellFormedSpan(SpanItems[1])
  /\ Wrappers(Get(SpanItems[1], "annotations")) = <<"u", "del", "em", "strong", "code">>
  /\ Truthy(Get(SpanItems[1], "href"))
  /\ ret.outcome = "returned"
  /\ Chain(ret.result.kids[1]) = <<"a", "u", "del", "em", "strong", "code", "Fragment", "#text">>


(* C23: when the fetch of a child subtree fails, the fetch function of the  *)
(* parent block fetch fails too: the parent throws (with no stale entry to  *)
(* fall back on), its step leaves the entry under its blocks key as it was, *)
(* and that step comes after the failure was delivered to it; a block fetch *)
(* whose fetch function returned holds no partially populated tree.         *)
C23_ChildFailureFailsParent ==
  [][ (ret'.pc = "done" /\ ret'.op = "getBlocks")
        => /\ ret'.rej # Undefined
                => /\ ret'.fetched = "threw"
                   /\ ret'.item = Undefined => ret'.outcome = "threw"
                   /\ CacheGet(cache', ret'.key) = CacheGet(cache, ret'.key)
                   /\ \E s \in Slots :
                        /\ tasks[s].op = "getBlocks"
                        /\ tasks[s].arg = ret'.arg
                        /\ tasks[s].parent = 0
                        /\ tasks[s].pc = "await"
                        /\ tasks[s].rej = ret'.rej
           /\ ret'.fetched = "returned" => ChildrenResolved(ret'.result) ]_vars

C23_Witness ==
  /\ ret.pc = "done"
  /\ ret.op = "getBlocks"
  /\ ret.arg = <<"p1">>
  /\ ret.rej = Error(<<"block-not-found", "x1">>)
  /\ ret.outcome = "threw"
  /\ ret.calls.list = 3
  /\ CacheGet(cache, ret.key) = Undefined

(* C24: when a nested child block fetch fails with a classified error, the  *)
(* error that reaches the caller of the outermost block fetch has the       *)
(* message the child's catch block gave it.                                 *)
C24_ClassifiedOnce ==
  (/\ ret.pc = "done"
   /\ ret.op = "getBlocks"
   /\ ret.outcome = "threw"
   /\ ret.rej # Undefined)
    => ret.result.msg = ret.rej.msg


(* what the fetch function of a page or database lookup returns when its    *)
(* own remote request is answered now                                       *)
OwnFetchData(rec) ==
  IF rec.op = "getPage" THEN PageResponse(rec.arg[1], remoteVer)
  ELSE formatPages(QueryResults(QueryFilter(rec.op, rec.arg), remoteVer))

RemoteCalls(rec) == rec.calls.query + rec.calls.retrieve + rec.calls.list

(* C25: no request de-duplication. A lookup that finds no unexpired entry   *)
(* starts its own fetch with its own remote request however many fetches of *)
(* the same key are outstanding, and leaves those untouched; when it        *)
(* settles it has invoked the fetch function once and returns what its own  *)
(* request was answered with, not what an overlapping fetch stored.         *)
C25_NoDeduplication ==
  [][ /\ \A b \in Slots :
           (/\ tasks[b].pc = "idle"
            /\ tasks'[b].pc = "remote"
            /\ tasks'[b].mode = "sync")
             => /\ tasks'[b].fetches = 1
                /\ RemoteCalls(tasks'[b]) = 1
                /\ \A s \in Slots \ {b} : tasks'[s] = tasks[s]
      /\ (/\ ret'.pc = "done"
          /\ ret'.lookedUp
          /\ ~IsUnexpired(ret'.item, ret'.t0))
           => /\ ret'.fetches = 1
              /\ RemoteCalls(ret') = 1
              /\ ret'.fetched = "returned" => ret'.result = OwnFetchData(ret') ]_vars

C25_Witness ==
  /\ ret.pc = "done"
  /\ ret.op = "getPage"
  /\ ret.item = Undefined
  /\ ret.fetched = "returned"
  /\ ret.result.v = 1
  /\ CacheGet(cache, ret.key).data.v = 1
  /\ \E s \in Slots :
       /\ tasks[s].pc = "remote"
       /\ tasks[s].mode = "sync"
       /\ tasks[s].key = ret.key
       /\ tasks[s].item = Undefined
       /\ tasks[s].t0 = ret.t0


Refreshing == {s \in Slots : tasks[s].mode = "bg" /\ tasks[s].pc = "remote"}

(* C26: whenever a background refresh is outstanding, its failure delivers  *)
(* nothing to any caller, changes no other task and leaves the cache as it  *)
(* is, and its success delivers nothing either and replaces the entry of    *)
(* its key with the new data, stored at the completion time and expiring    *)
(* one ttl after the completion time.                                       *)
C26_BackgroundRefreshOutcome ==
  \A s \in Refreshing :
    /\ \A e \in CoreErrors :
         LET w == OnResponse(World, s, FALSE, e)
         IN /\ w.ok
            /\ w.ret = Idle
            /\ w.c = cache
            /\ w.ts = [tasks EXCEPT ![s] = Idle]
    /\ LET w == OnResponse(World, s, TRUE, <<>>)
       IN /\ w.ok
          /\ w.ret = Idle
          /\ w.ts = [tasks EXCEPT ![s] = Idle]
          /\ w.c = CachePut(cache, tasks[s].key,
                            CacheItem(OwnFetchData(tasks[s]), now, now + TTL))

C26_Witness ==
  \E s \in Refreshing :
    /\ tasks[s].op = "getPage"
    /\ tasks[s].t0 < now
    /\ tasks[s].item = CacheGet(cache, tasks[s].key)
    /\ tasks[s].item.data.v # remoteVer
    /\ IsUnexpired(CacheGet(cache, tasks[s].key), tasks[s].t0)
    /\ ~IsUnexpired(CacheGet(cache, tasks[s].key), now)


(* C27: every replacement of the entry of a key stores an entry whose       *)
(* expiresAt is at least the expiresAt of the entry it replaces, so that a  *)
(* fetch that started earlier never overwrites what a fetch that started    *)
(* later has stored.                                                        *)
C27_ExpiryNeverDecreases ==
  [][ \A k \in DOMAIN cache \cap DOMAIN cache' :
        cache'[k].expiresAt >= cache[k].expiresAt ]_vars


(* C28: a lookup whose fetch was outstanding when clearCache removed the    *)
(* entry of its key does not put an entry for that key back when its fetch  *)
(* completes: the key stays absent until a lookup started after the clear   *)
(* stores it.                                                               *)
C28_ClearedKeyStaysAbsent ==
  [][ (/\ ret'.pc = "done"
       /\ ret'.cleared
       /\ ret'.key \notin DOMAIN cache)
        => ret'.key \notin DOMAIN cache' ]_vars


(* C29: within one block fetch the first list request carries no cursor and *)
(* no two list requests carry the same cursor, so that no page is requested *)
(* twice, whatever the source answers.                                      *)
C29_NoPageRequestedTwice ==
  (ret.pc = "done" /\ ret.op = "getBlocks" /\ ret.fetches = 1)
    => /\ ret.reqs[1].start_cursor = NoCursor
       /\ \A i, j \in 1..Len(ret.reqs) :
            i # j => ret.reqs[i].start_cursor # ret.reqs[j].start_cursor


(* C30: under SpecLayers version 0 of the source can only be retrieved at   *)
(* time 0. When no fetch fails, a formatted page returned by a lookup by    *)
(* slug that was called more than one ttl after time 0 holds neither page   *)
(* metadata nor blocks of version 0.                                        *)
C30_StalenessWithinTtl ==
  (/\ ret.pc = "done"
   /\ ret.op = "getPageBySlug"
   /\ ret.outcome = "returned"
   /\ ret.result.kind = "formatted"
   /\ ret.t0 > TTL)
    => /\ ret.result.v # 0
       /\ \A i \in 1..Len(ret.result.blocks) : ret.result.blocks[i].v # 0

====
